---- MODULE Spec2Model ----
(***************************************************************************)
(* Model of src/api.py: the SpeedyAPI client.  A client is built once by   *)
(* __init__; every public method builds a request body, issues one         *)
(* requests.post and returns the decoded response or raises.               *)
(*                                                                         *)
(* Python values are tagged records, so that values of different Python    *)
(* types can share a dict:  None, str, int, dict, list, bytes.  A str is a *)
(* sequence of text chunks (a "/" is always a chunk of its own); a dict is *)
(* the insertion-ordered sequence of its <<key, value>> items.             *)
(***************************************************************************)
EXTENDS Integers, Sequences, FiniteSets, TLC

VARIABLES
    ctor,       \* the arguments __init__ was called with
    self,       \* the client object: user, pwd, base, lang
    pc,         \* "idle": no call in progress; "done": a call has finished
    op,         \* name of the method of the finished call
    args,       \* the arguments of the finished call
    sent,       \* the requests the call handed to requests.post, in order
    resp,       \* what the network answered
    outcome     \* how the call ended: a returned value or a raised error

vars == <<ctor, self, pc, op, args, sent, resp, outcome>>

----------------------------------------------------------------------------
(* Bounds of the model *)

MaxUrl == 2         \* longest base_url argument, in chunks
MaxBody == 2        \* longest response body, in bytes
MaxParcels == 2     \* longest parcel list

----------------------------------------------------------------------------
(* Python values *)

None == [none |-> TRUE]
PyStr(s) == [str |-> s]
PyInt(i) == [int |-> i]
PyDict(d) == [dict |-> d]
PyList(l) == [list |-> l]
PyBytes(b) == [bytes |-> b]

IsNone(v) == "none" \in DOMAIN v

\* Python truth value testing, as used by "if x:"
Truthy(v) ==
    IF "none" \in DOMAIN v THEN FALSE
    ELSE IF "str" \in DOMAIN v THEN v.str # <<>>
    ELSE IF "int" \in DOMAIN v THEN v.int # 0
    ELSE IF "dict" \in DOMAIN v THEN v.dict # <<>>
    ELSE IF "list" \in DOMAIN v THEN v.list # <<>>
    ELSE v.bytes # <<>>

\* str + str
Concat(a, b) == PyStr(a.str \o b.str)

\* Sequences over alphabet A of length at most n
SeqsUpTo(A, n) == UNION {[1..k -> A] : k \in 0..n}

----------------------------------------------------------------------------
(* dict: insertion-ordered items *)

Keys(d) == {d[i][1] : i \in 1..Len(d)}

Get(d, k) == d[CHOOSE i \in 1..Len(d) : d[i][1] = k][2]

\* d[k] = v
SetItem(d, k, v) ==
    IF k \in Keys(d)
    THEN [i \in 1..Len(d) |-> IF d[i][1] = k THEN <<k, v>> ELSE d[i]]
    ELSE Append(d, <<k, v>>)

\* {**a, **b}
RECURSIVE Merge(_, _)
Merge(a, b) ==
    IF b = <<>> THEN a
    ELSE Merge(SetItem(a, b[1][1], b[1][2]), Tail(b))

----------------------------------------------------------------------------
(* str.rstrip(ch) *)

RECURSIVE rstrip(_, _)
rstrip(s, ch) ==
    IF Len(s) > 0 /\ s[Len(s)] = ch
    THEN rstrip(SubSeq(s, 1, Len(s) - 1), ch)
    ELSE s

\* removes one trailing ch only
rstrip_once(s, ch) ==
    IF Len(s) > 0 /\ s[Len(s)] = ch THEN SubSeq(s, 1, Len(s) - 1) ELSE s

----------------------------------------------------------------------------
(* SpeedyAPI.__init__ *)

Default_base_url == PyStr(<<"https:", "/", "/", "api.speedy.bg", "/", "v1", "/">>)
Default_language == PyStr(<<"EN">>)

__init___strip_one(username, password, base_url, language) ==
    [user |-> username,
     pwd |-> password,
     base |-> PyStr(rstrip_once(base_url.str, "/") \o <<"/">>),
     lang |-> language]

__init__(username, password, base_url, language) ==
    [user |-> username,
     pwd |-> password,
     base |-> PyStr(rstrip(base_url.str, "/") \o <<"/">>),
     lang |-> language]

----------------------------------------------------------------------------
(* The HTTP transport: requests.post, Response.raise_for_status,           *)
(* Response.json                                                           *)

\* A response: connected = FALSE is a network failure (requests.post raises)
Response(connected, status, content) ==
    [connected |-> connected, status |-> status, content |-> content]

NetworkFailure == Response(FALSE, 0, <<>>)

\* The request requests.post(url, json=payload) sends
Request(url, payload) == [method |-> "POST", url |-> url, json |-> payload]

Return(v) == [kind |-> "return", value |-> v, error |-> ""]
Raise(e) == [kind |-> "raise", value |-> None, error |-> e]

\* Response.raise_for_status: raises for 4xx and 5xx
raises_for_status(r) == 400 <= r.status /\ r.status < 600

\* the integer written as n digits "1"
RECURSIVE Ones(_)
Ones(n) == IF n = 0 THEN 0 ELSE 10 * Ones(n - 1) + 1

\* first index at or after i of s that holds no digit
RECURSIVE DigitsEnd(_, _)
DigitsEnd(s, i) ==
    IF i <= Len(s) /\ s[i] = "1" THEN DigitsEnd(s, i + 1) ELSE i

NoParse == [ok |-> FALSE, value |-> None, end |-> 0]

\* json.JSONDecoder.raw_decode: the JSON value that starts at s[i] and the
\* index after it.  JSON texts here are made of "[", "]" and the digit "1".
RECURSIVE raw_decode(_, _)
raw_decode(s, i) ==
    IF i > Len(s) THEN NoParse
    ELSE IF s[i] = "1"
    THEN [ok |-> TRUE, value |-> PyInt(Ones(DigitsEnd(s, i) - i)),
          end |-> DigitsEnd(s, i)]
    ELSE IF s[i] = "["
    THEN IF i + 1 <= Len(s) /\ s[i + 1] = "]"
         THEN [ok |-> TRUE, value |-> PyList(<<>>), end |-> i + 2]
         ELSE LET r == raw_decode(s, i + 1) IN
              IF r.ok /\ r.end <= Len(s) /\ s[r.end] = "]"
              THEN [ok |-> TRUE, value |-> PyList(<<r.value>>), end |-> r.end + 1]
              ELSE NoParse
    ELSE NoParse

\* decodes the first JSON value of s and ignores what follows it
json_loads_prefix(s) ==
    LET r == raw_decode(s, 1) IN
    IF r.ok THEN Return(r.value) ELSE Raise("JSONDecodeError")

\* json.loads, as Response.json calls it: the whole text must be one value
json_loads(s) ==
    LET r == raw_decode(s, 1) IN
    IF r.ok /\ r.end = Len(s) + 1 THEN Return(r.value)
    ELSE Raise("JSONDecodeError")

----------------------------------------------------------------------------
(* SpeedyAPI._post.  A method's result is the client after the call, the   *)
(* requests it sent and its outcome.                                       *)

Result(obj, requests, out) == [self |-> obj, sent |-> requests, outcome |-> out]

_post_payload(obj, data) ==
    Merge(<<<<"userName", obj.user>>, <<"password", obj.pwd>>,
            <<"language", obj.lang>>>>, data)

\* as _post, with the payload built the way print_waybill builds it
_post_no_language(obj, endpoint, data, r) ==
    LET payload == Merge(<<<<"userName", obj.user>>, <<"password", obj.pwd>>>>, data)
        req == Request(Concat(obj.base, endpoint), payload)
    IN  IF ~r.connected THEN Result(obj, <<req>>, Raise("ConnectionError"))
        ELSE IF raises_for_status(r) THEN Result(obj, <<req>>, Raise("HTTPError"))
        ELSE Result(obj, <<req>>, json_loads(r.content))

\* as _post, keeping the full URL in self.base
_post_stateful(obj, endpoint, data, r) ==
    LET req == Request(Concat(obj.base, endpoint), _post_payload(obj, data))
        obj2 == [obj EXCEPT !.base = Concat(obj.base, endpoint)]
    IN  IF ~r.connected THEN Result(obj2, <<req>>, Raise("ConnectionError"))
        ELSE IF raises_for_status(r) THEN Result(obj2, <<req>>, Raise("HTTPError"))
        ELSE Result(obj2, <<req>>, json_loads(r.content))

\* as _post, posting a second time when the first attempt fails
_post_retry(obj, endpoint, data, r) ==
    LET req == Request(Concat(obj.base, endpoint), _post_payload(obj, data))
    IN  IF ~r.connected THEN Result(obj, <<req, req>>, Raise("ConnectionError"))
        ELSE IF raises_for_status(r) THEN Result(obj, <<req, req>>, Raise("HTTPError"))
        ELSE Result(obj, <<req>>, json_loads(r.content))

_post(obj, endpoint, data, r) ==
    LET req == Request(Concat(obj.base, endpoint), _post_payload(obj, data))
    IN  IF ~r.connected THEN Result(obj, <<req>>, Raise("ConnectionError"))
        ELSE IF raises_for_status(r) THEN Result(obj, <<req>>, Raise("HTTPError"))
        ELSE Result(obj, <<req>>, json_loads(r.content))

----------------------------------------------------------------------------
(* The public methods *)

create_shipment(obj, sender, recipient, service, content, payment, ref1, r) ==
    LET d0 == <<<<"sender", sender>>, <<"recipient", recipient>>,
                <<"service", service>>, <<"content", content>>,
                <<"payment", payment>>>>
        data == IF Truthy(ref1) THEN SetItem(d0, "ref1", ref1) ELSE d0
    IN  _post(obj, PyStr(<<"shipment", "/">>), data, r)

Default_paper_size == PyStr(<<"A4">>)

\* [{"parcel": {"id": p}} for p in parcels]
ParcelRefs(parcels) ==
    PyList([i \in 1..Len(parcels.list) |->
              PyDict(<<<<"parcel", PyDict(<<<<"id", parcels.list[i]>>>>)>>>>)])

\* as print_waybill, sending the bare identifiers
print_waybill_bare_ids(obj, parcels, paper_size, r) ==
    LET data == <<<<"parcels", parcels>>, <<"paperSize", paper_size>>>>
        payload == Merge(<<<<"userName", obj.user>>, <<"password", obj.pwd>>>>, data)
        req == Request(Concat(obj.base, PyStr(<<"print", "/">>)), payload)
    IN  IF ~r.connected THEN Result(obj, <<req>>, Raise("ConnectionError"))
        ELSE Result(obj, <<req>>, Return(PyBytes(r.content)))

\* as print_waybill, building the payload the way _post does
print_waybill_with_language(obj, parcels, paper_size, r) ==
    LET data == <<<<"parcels", ParcelRefs(parcels)>>, <<"paperSize", paper_size>>>>
        req == Request(Concat(obj.base, PyStr(<<"print", "/">>)),
                       _post_payload(obj, data))
    IN  IF ~r.connected THEN Result(obj, <<req>>, Raise("ConnectionError"))
        ELSE Result(obj, <<req>>, Return(PyBytes(r.content)))

print_waybill(obj, parcels, paper_size, r) ==
    LET data == <<<<"parcels", ParcelRefs(parcels)>>, <<"paperSize", paper_size>>>>
        payload == Merge(<<<<"userName", obj.user>>, <<"password", obj.pwd>>>>, data)
        req == Request(Concat(obj.base, PyStr(<<"print", "/">>)), payload)
    IN  IF ~r.connected THEN Result(obj, <<req>>, Raise("ConnectionError"))
        ELSE Result(obj, <<req>>, Return(PyBytes(r.content)))

get_contract_clients(obj, r) ==
    _post(obj, PyStr(<<"client", "/", "contract", "/">>), <<>>, r)

\* as find_country, testing the filters with "is not None"
find_country_not_none(obj, name, iso_alpha2, r) ==
    LET d0 == <<>>
        d1 == IF ~IsNone(name) THEN SetItem(d0, "name", name) ELSE d0
        data == IF ~IsNone(iso_alpha2) THEN SetItem(d1, "isoAlpha2", iso_alpha2) ELSE d1
    IN  _post(obj, PyStr(<<"location", "/", "country", "/">>), data, r)

find_country(obj, name, iso_alpha2, r) ==
    LET d0 == <<>>
        d1 == IF Truthy(name) THEN SetItem(d0, "name", name) ELSE d0
        data == IF Truthy(iso_alpha2) THEN SetItem(d1, "isoAlpha2", iso_alpha2) ELSE d1
    IN  _post(obj, PyStr(<<"location", "/", "country", "/">>), data, r)

find_state(obj, country_id, name, r) ==
    _post(obj, PyStr(<<"location", "/", "state", "/">>),
          <<<<"countryId", country_id>>, <<"name", name>>>>, r)

find_office(obj, country_id, site_id, name, r) ==
    LET d0 == <<>>
        d1 == IF ~IsNone(country_id) THEN SetItem(d0, "countryId", country_id) ELSE d0
        d2 == IF ~IsNone(site_id) THEN SetItem(d1, "siteId", site_id) ELSE d1
        data == IF Truthy(name) THEN SetItem(d2, "name", name) ELSE d2
    IN  _post(obj, PyStr(<<"location", "/", "office", "/">>), data, r)

find_site(obj, country_id, name, post_code, site_type, region, r) ==
    LET d0 == <<<<"countryId", country_id>>>>
        d1 == IF Truthy(name) THEN SetItem(d0, "name", name) ELSE d0
        d2 == IF Truthy(post_code) THEN SetItem(d1, "postCode", post_code) ELSE d1
        d3 == IF Truthy(site_type) THEN SetItem(d2, "type", site_type) ELSE d2
        data == IF Truthy(region) THEN SetItem(d3, "region", region) ELSE d3
    IN  _post(obj, PyStr(<<"location", "/", "site", "/">>), data, r)

find_complex(obj, site_id, name, r) ==
    _post(obj, PyStr(<<"location", "/", "complex", "/">>),
          <<<<"siteId", site_id>>, <<"name", name>>>>, r)

find_street(obj, site_id, name, street_type, r) ==
    LET d0 == <<<<"siteId", site_id>>, <<"name", name>>>>
        data == IF Truthy(street_type) THEN SetItem(d0, "type", street_type) ELSE d0
    IN  _post(obj, PyStr(<<"location", "/", "street", "/">>), data, r)

find_poi(obj, site_id, name, r) ==
    _post(obj, PyStr(<<"location", "/", "poi", "/">>),
          <<<<"siteId", site_id>>, <<"name", name>>>>, r)

\* as destination_services, testing the sender id with "if sender_client_id:"
destination_services_truthy(obj, sender_client_id, recipient, date, r) ==
    LET d0 == <<>>
        d1 == IF Truthy(date) THEN SetItem(d0, "date", date) ELSE d0
        d2 == IF Truthy(sender_client_id)
              THEN SetItem(d1, "sender", PyDict(<<<<"clientId", sender_client_id>>>>))
              ELSE d1
        data == IF Truthy(recipient) THEN SetItem(d2, "recipient", recipient) ELSE d2
    IN  _post(obj, PyStr(<<"services", "/", "destination">>), data, r)

destination_services(obj, sender_client_id, recipient, date, r) ==
    LET d0 == <<>>
        d1 == IF Truthy(date) THEN SetItem(d0, "date", date) ELSE d0
        d2 == IF ~IsNone(sender_client_id)
              THEN SetItem(d1, "sender", PyDict(<<<<"clientId", sender_client_id>>>>))
              ELSE d1
        data == IF Truthy(recipient) THEN SetItem(d2, "recipient", recipient) ELSE d2
    IN  _post(obj, PyStr(<<"services", "/", "destination">>), data, r)

calculate(obj, sender, recipient, r) ==
    _post(obj, PyStr(<<"services", "/", "destination">>),
          <<<<"sender", sender>>, <<"recipient", recipient>>>>, r)

----------------------------------------------------------------------------
(* The values callers and the network supply *)

Usernames == {PyStr(<<"alice">>)}
Passwords == {PyStr(<<"secret">>)}
Languages == {Default_language, PyStr(<<"BG">>)}
BaseUrls == {Default_base_url} \cup {PyStr(s) : s \in SeqsUpTo({"h", "/"}, MaxUrl)}

ReqStrs == {PyStr(<<>>), PyStr(<<"x">>)}
OptStrs == {None} \cup ReqStrs
Ids == {PyInt(7)}
OptIds == {None, PyInt(0), PyInt(42)}
Dicts == {PyDict(<<>>), PyDict(<<<<"clientId", PyInt(42)>>>>)}
OptDicts == {None} \cup Dicts
Sections == {PyDict(<<<<"serviceId", PyInt(505)>>>>)}
ParcelLists == {PyList(l) : l \in SeqsUpTo({PyStr(<<"123">>), PyStr(<<"456">>)}, MaxParcels)}
PaperSizes == {Default_paper_size, PyStr(<<"A5">>)}

Statuses == {200, 304, 404}
Bodies == SeqsUpTo({"[", "]", "1"}, MaxBody)
Responses == {NetworkFailure} \cup {Response(TRUE, st, b) : st \in Statuses, b \in Bodies}

----------------------------------------------------------------------------
(* The state machine: a caller that makes one call after another *)

Init ==
    /\ \E username \in Usernames, password \in Passwords,
          base_url \in BaseUrls, language \in Languages :
          /\ ctor = [username |-> username, password |-> password,
                     base_url |-> base_url, language |-> language]
          /\ self = __init__(username, password, base_url, language)
    /\ pc = "idle"
    /\ op = "none"
    /\ args = <<>>
    /\ sent = <<>>
    /\ resp = NetworkFailure
    /\ outcome = Return(None)

\* a call of method m with arguments a, answered by r, ends with result res
Finish(m, a, r, res) ==
    /\ pc' = "done"
    /\ op' = m
    /\ args' = a
    /\ resp' = r
    /\ self' = res.self
    /\ sent' = res.sent
    /\ outcome' = res.outcome
    /\ UNCHANGED ctor

CreateShipment ==
    /\ pc = "idle"
    /\ \E sender \in Dicts, recipient \in Dicts, service \in Sections,
          content \in Sections, payment \in Sections, ref1 \in OptStrs, r \in Responses :
          Finish("create_shipment",
                 <<sender, recipient, service, content, payment, ref1>>, r,
                 create_shipment(self, sender, recipient, service, content,
                                 payment, ref1, r))

PrintWaybill ==
    /\ pc = "idle"
    /\ \E parcels \in ParcelLists, paper_size \in PaperSizes, r \in Responses :
          Finish("print_waybill", <<parcels, paper_size>>, r,
                 print_waybill(self, parcels, paper_size, r))

GetContractClients ==
    /\ pc = "idle"
    /\ \E r \in Responses :
          Finish("get_contract_clients", <<>>, r, get_contract_clients(self, r))

FindCountry ==
    /\ pc = "idle"
    /\ \E name \in OptStrs, iso_alpha2 \in OptStrs, r \in Responses :
          Finish("find_country", <<name, iso_alpha2>>, r,
                 find_country(self, name, iso_alpha2, r))

FindState ==
    /\ pc = "idle"
    /\ \E country_id \in Ids, name \in ReqStrs, r \in Responses :
          Finish("find_state", <<country_id, name>>, r,
                 find_state(self, country_id, name, r))

FindOffice ==
    /\ pc = "idle"
    /\ \E country_id \in OptIds, site_id \in OptIds, name \in OptStrs,
          r \in Responses :
          Finish("find_office", <<country_id, site_id, name>>, r,
                 find_office(self, country_id, site_id, name, r))

FindSite ==
    /\ pc = "idle"
    /\ \E country_id \in Ids, name \in OptStrs, post_code \in OptStrs,
          site_type \in OptStrs, region \in OptStrs, r \in Responses :
          Finish("find_site", <<country_id, name, post_code, site_type, region>>, r,
                 find_site(self, country_id, name, post_code, site_type, region, r))

FindComplex ==
    /\ pc = "idle"
    /\ \E site_id \in Ids, name \in ReqStrs, r \in Responses :
          Finish("find_complex", <<site_id, name>>, r,
                 find_complex(self, site_id, name, r))

FindStreet ==
    /\ pc = "idle"
    /\ \E site_id \in Ids, name \in ReqStrs, street_type \in OptStrs,
          r \in Responses :
          Finish("find_street", <<site_id, name, street_type>>, r,
                 find_street(self, site_id, name, street_type, r))

FindPoi ==
    /\ pc = "idle"
    /\ \E site_id \in Ids, name \in ReqStrs, r \in Responses :
          Finish("find_poi", <<site_id, name>>, r, find_poi(self, site_id, name, r))

DestinationServices ==
    /\ pc = "idle"
    /\ \E sender_client_id \in OptIds, recipient \in OptDicts, date \in OptStrs,
          r \in Responses :
          Finish("destination_services", <<sender_client_id, recipient, date>>, r,
                 destination_services(self, sender_client_id, recipient, date, r))

Calculate ==
    /\ pc = "idle"
    /\ \E sender \in Dicts, recipient \in Dicts, r \in Responses :
          Finish("calculate", <<sender, recipient>>, r,
                 calculate(self, sender, recipient, r))

\* the caller has the result (or the exception) and is free to call again
Resume ==
    /\ pc = "done"
    /\ pc' = "idle"
    /\ op' = "none"
    /\ args' = <<>>
    /\ sent' = <<>>
    /\ resp' = NetworkFailure
    /\ outcome' = Return(None)
    /\ UNCHANGED <<ctor, self>>

Next ==
    \/ CreateShipment
    \/ PrintWaybill
    \/ GetContractClients
    \/ FindCountry
    \/ FindState
    \/ FindOffice
    \/ FindSite
    \/ FindComplex
    \/ FindStreet
    \/ FindPoi
    \/ DestinationServices
    \/ Calculate
    \/ Resume

Spec == Init /\ [][Next]_vars

----------------------------------------------------------------------------
(* Vocabulary of the properties *)

Called == pc = "done"
JsonOp == op # "print_waybill"
Body == sent[1].json
HasItem(d, k, v) == k \in Keys(d) /\ Get(d, k) = v
IsEmptyValue(v) ==
    v = PyStr(<<>>) \/ v = PyDict(<<>>) \/ v = PyList(<<>>) \/ v = PyBytes(<<>>)
Is2xx(st) == 200 <= st /\ st < 300

\* <<body key, position of the parameter>> of every optional parameter
OptionalParams(m) ==
    CASE m = "create_shipment" -> {<<"ref1", 6>>}
      [] m = "find_country" -> {<<"name", 1>>, <<"isoAlpha2", 2>>}
      [] m = "find_office" -> {<<"countryId", 1>>, <<"siteId", 2>>, <<"name", 3>>}
      [] m = "find_site" -> {<<"name", 2>>, <<"postCode", 3>>, <<"type", 4>>,
                             <<"region", 5>>}
      [] m = "find_street" -> {<<"type", 3>>}
      [] m = "destination_services" -> {<<"sender", 1>>, <<"recipient", 2>>,
                                        <<"date", 3>>}
      [] OTHER -> {}

\* <<body key, position of the parameter>> of every required parameter
RequiredParams(m) ==
    CASE m = "create_shipment" -> {<<"sender", 1>>, <<"recipient", 2>>,
                                   <<"service", 3>>, <<"content", 4>>,
                                   <<"payment", 5>>}
      [] m = "find_state" -> {<<"countryId", 1>>, <<"name", 2>>}
      [] m = "find_site" -> {<<"countryId", 1>>}
      [] m = "find_complex" -> {<<"siteId", 1>>, <<"name", 2>>}
      [] m = "find_street" -> {<<"siteId", 1>>, <<"name", 2>>}
      [] m = "find_poi" -> {<<"siteId", 1>>, <<"name", 2>>}
      [] m = "calculate" -> {<<"sender", 1>>, <<"recipient", 2>>}
      [] OTHER -> {}

\* the value a parameter is sent as
SentAs(m, k, v) ==
    IF m = "destination_services" /\ k = "sender"
    THEN PyDict(<<<<"clientId", v>>>>)
    ELSE v

\* the endpoint suffix of each operation
EndpointOf(m) ==
    CASE m = "create_shipment" -> <<"shipment", "/">>
      [] m = "print_waybill" -> <<"print", "/">>
      [] m = "get_contract_clients" -> <<"client", "/", "contract", "/">>
      [] m = "find_country" -> <<"location", "/", "country", "/">>
      [] m = "find_state" -> <<"location", "/", "state", "/">>
      [] m = "find_office" -> <<"location", "/", "office", "/">>
      [] m = "find_site" -> <<"location", "/", "site", "/">>
      [] m = "find_complex" -> <<"location", "/", "complex", "/">>
      [] m = "find_street" -> <<"location", "/", "street", "/">>
      [] m = "find_poi" -> <<"location", "/", "poi", "/">>
      [] OTHER -> <<"services", "/", "destination">>

\* the texts of the JSON grammar over "[", "]" and the digit "1"
RECURSIVE IsJsonText(_)
IsJsonText(s) ==
    \/ Len(s) >= 1 /\ \A i \in 1..Len(s) : s[i] = "1"
    \/ /\ Len(s) >= 2
       /\ s[1] = "["
       /\ s[Len(s)] = "]"
       /\ (Len(s) = 2 \/ IsJsonText(SubSeq(s, 2, Len(s) - 1)))

\* the compact JSON text of a value
RECURSIVE Render(_)
Render(v) ==
    IF "int" \in DOMAIN v
    THEN (IF v.int = 0 THEN <<>> ELSE Render(PyInt(v.int \div 10)) \o <<"1">>)
    ELSE IF "list" \in DOMAIN v
    THEN (IF v.list = <<>> THEN <<"[", "]">>
          ELSE <<"[">> \o Render(v.list[1]) \o <<"]">>)
    ELSE <<"?">>

----------------------------------------------------------------------------
(* C1: every call answered with a status that is not 2xx fails: it raises  *)
(* and returns no value.                                                   *)
C1_NonSuccessStatusFails ==
    (Called /\ resp.connected /\ ~Is2xx(resp.status)) => outcome.kind = "raise"

(* C2: for every operation other than print_waybill the request body holds *)
(* userName, password and language equal to the constructor's arguments,   *)
(* and every call-specific field the operation builds: each required       *)
(* parameter, and each optional parameter given a non-empty value.         *)
C2_CredentialsAndFields ==
    (Called /\ JsonOp) =>
        /\ HasItem(Body, "userName", ctor.username)
        /\ HasItem(Body, "password", ctor.password)
        /\ HasItem(Body, "language", ctor.language)
        /\ \A p \in RequiredParams(op) : HasItem(Body, p[1], args[p[2]])
        /\ \A p \in OptionalParams(op) :
              (~IsNone(args[p[2]]) /\ ~IsEmptyValue(args[p[2]]))
                  => HasItem(Body, p[1], SentAs(op, p[1], args[p[2]]))

C2_Witness ==
    /\ Called
    /\ op = "find_site"
    /\ ctor.language = PyStr(<<"BG">>)
    /\ args[3] = PyStr(<<"x">>)
    /\ HasItem(Body, "language", PyStr(<<"BG">>))
    /\ HasItem(Body, "postCode", PyStr(<<"x">>))

(* C3: the request body of print_waybill holds userName and password equal *)
(* to the constructor's arguments and never a language key.                *)
C3_PrintHasNoLanguage ==
    (Called /\ op = "print_waybill") =>
        /\ HasItem(Body, "userName", ctor.username)
        /\ HasItem(Body, "password", ctor.password)
        /\ "language" \notin Keys(Body)

C3_Witness ==
    /\ Called
    /\ op = "print_waybill"
    /\ Len(args[1].list) = 2
    /\ args[2] = PyStr(<<"A5">>)
    /\ Keys(Body) = {"userName", "password", "parcels", "paperSize"}

(* C4: the key of an optional parameter the caller left unset (None) is    *)
(* not in the request body; the key of an optional parameter is in the     *)
(* body only if the caller supplied it, and never with a null or empty     *)
(* value.                                                                  *)
C4_OptionalKeysOmitted ==
    Called =>
        \A p \in OptionalParams(op) :
            /\ IsNone(args[p[2]]) => p[1] \notin Keys(Body)
            /\ p[1] \in Keys(Body) =>
                  /\ ~IsNone(args[p[2]])
                  /\ ~IsNone(Get(Body, p[1]))
                  /\ ~IsEmptyValue(Get(Body, p[1]))

C4_Witness ==
    /\ Called
    /\ op = "find_country"
    /\ args = <<PyStr(<<"x">>), None>>
    /\ HasItem(Body, "name", PyStr(<<"x">>))
    /\ "isoAlpha2" \notin Keys(Body)

(* C5: the stored base URL ends with exactly one slash, equals the         *)
(* base_url argument apart from trailing slashes, and is left unchanged by *)
(* normalizing it again.                                                   *)
C5_BaseUrlNormalized ==
    LET b == self.base.str
        a == ctor.base_url.str
        n == Len(b)
    IN  /\ n >= 1
        /\ b[n] = "/"
        /\ n >= 2 => b[n - 1] # "/"
        /\ Len(a) >= n - 1
        /\ SubSeq(a, 1, n - 1) = SubSeq(b, 1, n - 1)
        /\ \A i \in n..Len(a) : a[i] = "/"
        /\ __init__(ctor.username, ctor.password, self.base, ctor.language).base
              = self.base

C5_Witness ==
    /\ ctor.base_url = PyStr(<<"/", "/">>)
    /\ self.base = PyStr(<<"/">>)

(* C6: print_waybill posts to base + "print/" a body whose parcels field   *)
(* lists {"parcel": {"id": p}} for each identifier p of the input, in the  *)
(* same order and number, and whose paperSize is the given paper size; it  *)
(* returns the bytes of the response body unchanged.                       *)
C6_PrintWaybillRequest ==
    (Called /\ op = "print_waybill") =>
        /\ Len(sent) = 1
        /\ sent[1].method = "POST"
        /\ sent[1].url = PyStr(self.base.str \o <<"print", "/">>)
        /\ "parcels" \in Keys(Body)
        /\ Len(Get(Body, "parcels").list) = Len(args[1].list)
        /\ \A i \in 1..Len(args[1].list) :
              Get(Body, "parcels").list[i] =
                  PyDict(<<<<"parcel", PyDict(<<<<"id", args[1].list[i]>>>>)>>>>)
        /\ HasItem(Body, "paperSize", args[2])
        /\ resp.connected => outcome = Return(PyBytes(resp.content))

C6_Witness ==
    /\ Called
    /\ op = "print_waybill"
    /\ args = <<PyList(<<PyStr(<<"123">>), PyStr(<<"456">>)>>), PyStr(<<"A5">>)>>
    /\ resp = Response(TRUE, 200, <<"[">>)
    /\ outcome = Return(PyBytes(<<"[">>))

(* C7: destination_services sends sender = {"clientId": id} whenever a     *)
(* sender client id is supplied, 0 included, and no sender key otherwise.  *)
C7_SenderWrapped ==
    (Called /\ op = "destination_services") =>
        /\ ~IsNone(args[1]) => HasItem(Body, "sender", PyDict(<<<<"clientId", args[1]>>>>))
        /\ IsNone(args[1]) => "sender" \notin Keys(Body)

C7_Witness ==
    /\ Called
    /\ op = "destination_services"
    /\ args[1] = PyInt(0)
    /\ HasItem(Body, "sender", PyDict(<<<<"clientId", PyInt(0)>>>>))

(* C8: whatever calls were made and however they ended, the client's       *)
(* user, pwd, base and lang are the values fixed at construction, and the  *)
(* URL and credentials of a request are built from those values.           *)
C8_ClientStateFixed ==
    LET built == __init__(ctor.username, ctor.password, ctor.base_url, ctor.language)
    IN  /\ self = built
        /\ Called =>
              /\ SubSeq(sent[1].url.str, 1, Len(built.base.str)) = built.base.str
              /\ HasItem(Body, "userName", built.user)
              /\ HasItem(Body, "password", built.pwd)

C8_Witness ==
    /\ Called
    /\ outcome.error = "HTTPError"
    /\ self.lang = ctor.language
    /\ self.base.str = rstrip(ctor.base_url.str, "/") \o <<"/">>

(* C9: a JSON operation answered with a success status and a body that is  *)
(* not valid JSON fails with a decode error, and a JSON operation that     *)
(* returns, returns the value of the whole response body.                  *)
C9_MalformedJsonFails ==
    (Called /\ JsonOp) =>
        /\ (resp.connected /\ Is2xx(resp.status) /\ ~IsJsonText(resp.content))
              => outcome = Raise("JSONDecodeError")
        /\ outcome.kind = "return"
              => IsJsonText(resp.content) /\ Render(outcome.value) = resp.content

C9_Witness ==
    /\ Called
    /\ op = "find_country"
    /\ resp = Response(TRUE, 200, <<"1", "]">>)
    /\ outcome = Raise("JSONDecodeError")

(* C10: every call hands exactly one POST to the transport, addressed to   *)
(* base + the operation's endpoint suffix, and then ends by returning or   *)
(* raising; a failure is not followed by a second request.                 *)
C10_OnePostPerCall ==
    Called =>
        /\ Len(sent) = 1
        /\ sent[1].method = "POST"
        /\ sent[1].url.str = self.base.str \o EndpointOf(op)
        /\ outcome.kind \in {"return", "raise"}

C10_Witness ==
    /\ Called
    /\ op = "calculate"
    /\ ~resp.connected
    /\ outcome = Raise("ConnectionError")
    /\ Len(sent) = 1

====
